---- MODULE Spec2Model ----
(***************************************************************************)
(* Model of llama_index/prompts/base.py: the prompt template classes       *)
(* (PromptTemplate, ChatPromptTemplate, SelectorPromptTemplate,            *)
(* LangchainPromptTemplate) as operations on a heap of Python objects.     *)
(*                                                                         *)
(* A Python call either returns a value or raises; every operator that     *)
(* models a method returns [heap, out] where out is Return(v) or Raise(e). *)
(***************************************************************************)
EXTENDS Integers, Sequences, FiniteSets, TLC

VARIABLES heap, last

vars == <<heap, last>>

\* ------------------------------------------------------------------ bounds
MaxHeap == 5
MaxConds == 2
MaxChain == 2

\* ------------------------------------------------------------ value sets
None == "None"
Names == {"a", "b"}
Values == {"1", "2"}
LLMs == {"gpt", "llama"}
Roles == {"system", "user"}
PromptTypes == {"custom", "summary"}
Parsers == {None, "parser1"}

\* keyword dictionaries: finite maps from names to values
EmptyKw == [k \in {} |-> "1"]
Bindings ==
  { EmptyKw,
    [k \in {"a"} |-> "1"],
    [k \in {"a", "b"} |-> IF k = "a" THEN "2" ELSE "1"] }

\* {**old, **new} and dict.update: new wins on key collision
Merge(old, new) ==
  [k \in (DOMAIN old) \cup (DOMAIN new) |->
     IF k \in DOMAIN new THEN new[k] ELSE old[k]]

\* --------------------------------------------------------- Python outcomes
Return(v) == [kind |-> "return", value |-> v, exc |-> None]
Raise(e) == [kind |-> "raise", value |-> None, exc |-> e]
Step(h, o) == [heap |-> h, out |-> o]

\* ------------------------------------------------------- template strings
\* A template string is a sequence of tokens: a literal character, a named
\* replacement field {name}, or a doubled brace {{ / }}.
Lit(c) == [t |-> "lit", s |-> c]
Var(n) == [t |-> "var", s |-> n]
LBrace == [t |-> "esc", s |-> "{"]
RBrace == [t |-> "esc", s |-> "}"]

RECURSIVE str_format(_, _)
\* str.format(**kw): left to right; a literal or a doubled brace emits one
\* character, a field emits its value, a field with no key raises KeyError.
str_format(s, kw) ==
  IF s = <<>> THEN Return(<<>>)
  ELSE LET tok == Head(s) IN
       IF tok.t = "var" /\ tok.s \notin DOMAIN kw THEN Raise("KeyError")
       ELSE LET rest == str_format(Tail(s), kw) IN
            IF rest.kind = "raise" THEN rest
            ELSE Return(<<IF tok.t = "var" THEN kw[tok.s] ELSE tok.s>> \o rest.value)

RECURSIVE get_template_vars(_)
\* placeholder names in order of first appearance; doubled braces are not
\* placeholders
get_template_vars(s) ==
  IF s = <<>> THEN <<>>
  ELSE LET front == get_template_vars(SubSeq(s, 1, Len(s) - 1))
           tok == s[Len(s)]
       IN IF tok.t = "var" /\ \A i \in 1..Len(front) : front[i] # tok.s
          THEN Append(front, tok.s) ELSE front

InList(x, l) == \E i \in 1..Len(l) : l[i] = x

\* ChatMessage
ChatMessage(role, content) == [role |-> role, content |-> content]

\* prompt_to_messages: one user message holding the prompt
prompt_to_messages(prompt) == <<ChatMessage("user", prompt)>>

RECURSIVE messages_to_prompt(_)
\* messages_to_prompt: "role: content" per message, one line each
messages_to_prompt(ms) ==
  IF ms = <<>> THEN <<>>
  ELSE <<Head(ms).role, ":">> \o Head(ms).content \o <<"\n">>
       \o messages_to_prompt(Tail(ms))

\* ------------------------------------------------------------ class model
\* Names declared abstract in BasePromptTemplate (properties and methods).
BaseAbstractProperties == {"metadata", "template_vars", "kwargs", "output_parser"}
BaseAbstractMethods == {"partial_format", "format", "format_messages"}

\* Names each class body defines.
ClassBody(cls) ==
  CASE cls = "ChatPromptTemplate" ->
         {"__init__", "template_vars", "partial_format", "format", "format_messages"}
    [] cls = "PromptTemplate" ->
         {"__init__", "template_vars", "partial_format", "format", "format_messages"}
    [] cls = "SelectorPromptTemplate" ->
         {"__init__", "metadata", "kwargs", "template_vars", "output_parser",
          "_select", "partial_format", "format", "format_messages"}
    [] cls = "LangchainPromptTemplate" ->
         {"__init__", "template_vars", "partial_format", "format", "format_messages"}

\* The legacy name is bound to the same class object.
Prompt == "PromptTemplate"
ClassNames == {"PromptTemplate", "Prompt"}
Resolve(name) == IF name = "Prompt" THEN Prompt ELSE name

\* ABCMeta: abstract names of the base that the class body does not override.
AbstractMethods(cls) ==
  (BaseAbstractProperties \cup BaseAbstractMethods) \ ClassBody(cls)

\* Every one of the four accessors is a property without a setter on every
\* subclass (inherited from the base or redefined with @property), so an
\* assignment to it through an instance raises AttributeError.
ReadOnly(cls) == BaseAbstractProperties

RECURSIVE SetAttrs(_, _, _)
\* the assignments self.<name> = <value> of an __init__ body, in order
SetAttrs(cls, obj, assigns) ==
  IF assigns = <<>> THEN Return(obj)
  ELSE IF Head(assigns)[1] \in ReadOnly(cls) THEN Raise("AttributeError")
  ELSE SetAttrs(cls, [k \in (DOMAIN obj) \cup {Head(assigns)[1]} |->
                        IF k = Head(assigns)[1] THEN Head(assigns)[2] ELSE obj[k]],
                Tail(assigns))

\* cls(...): object.__new__ refuses an abstract class, then __init__ runs and
\* the instance is placed on the heap.
Instantiate(h, cls, init) ==
  IF AbstractMethods(cls) # {} THEN Step(h, Raise("TypeError"))
  ELSE IF init.kind = "raise" THEN Step(h, init)
  ELSE Step(Append(h, init.value), Return(Len(h) + 1))

\* ---------------------------------------------------------- PromptTemplate
PromptTemplate___init__(template, prompt_type, output_parser, kwargs) ==
  LET a == SetAttrs("PromptTemplate", [cls |-> "PromptTemplate"],
                    <<<<"_template", template>>>>)
      b == IF a.kind = "raise" THEN a
           ELSE SetAttrs("PromptTemplate", a.value, <<<<"kwargs", kwargs>>>>)
      c == IF b.kind = "raise" THEN b
           ELSE SetAttrs("PromptTemplate", b.value,
                         <<<<"metadata", [prompt_type |-> prompt_type]>>>>)
  IN IF c.kind = "raise" THEN c
     ELSE SetAttrs("PromptTemplate", c.value, <<<<"output_parser", output_parser>>>>)

PromptTemplate_template_vars(h, self) == get_template_vars(h[self]._template)

\* deepcopy(self) allocates a copy; the update is applied to the copy
PromptTemplate_partial_format(h, self, kwargs) ==
  Step(Append(h, [h[self] EXCEPT !.kwargs = Merge(@, kwargs)]), Return(Len(h) + 1))

PromptTemplate_format(h, self, llm, kwargs) ==
  LET all_kwargs == Merge(h[self].kwargs, kwargs)
  IN Step(h, str_format(h[self]._template, all_kwargs))

PromptTemplate_format_messages(h, self, llm, kwargs) ==
  LET r == PromptTemplate_format(h, self, None, kwargs)
  IN IF r.out.kind = "raise" THEN r
     ELSE Step(r.heap, Return(prompt_to_messages(r.out.value)))

\* ------------------------------------------------------ ChatPromptTemplate
ChatPromptTemplate___init__(message_templates, prompt_type, output_parser, kwargs) ==
  LET a == SetAttrs("ChatPromptTemplate", [cls |-> "ChatPromptTemplate"],
                    <<<<"_message_templates", message_templates>>>>)
      b == IF a.kind = "raise" THEN a
           ELSE SetAttrs("ChatPromptTemplate", a.value, <<<<"kwargs", kwargs>>>>)
      c == IF b.kind = "raise" THEN b
           ELSE SetAttrs("ChatPromptTemplate", b.value,
                         <<<<"metadata", [prompt_type |-> prompt_type]>>>>)
  IN IF c.kind = "raise" THEN c
     ELSE SetAttrs("ChatPromptTemplate", c.value,
                   <<<<"output_parser", output_parser>>>>)

RECURSIVE ChatVars(_)
ChatVars(ms) ==
  IF ms = <<>> THEN <<>>
  ELSE get_template_vars(Head(ms).content) \o ChatVars(Tail(ms))

ChatPromptTemplate_template_vars(h, self) == ChatVars(h[self]._message_templates)

ChatPromptTemplate_partial_format(h, self, kwargs) ==
  Step(Append(h, [h[self] EXCEPT !.kwargs = Merge(@, kwargs)]), Return(Len(h) + 1))

\* the dict comprehension: the merged keys that are placeholders of this message
RelevantKwargs(all_kwargs, template_vars) ==
  [k \in {x \in DOMAIN all_kwargs : InList(x, template_vars)} |-> all_kwargs[k]]

RECURSIVE FormatEach(_, _)
\* the loop over self._message_templates; a KeyError leaves the loop
FormatEach(ms, all_kwargs) ==
  IF ms = <<>> THEN Return(<<>>)
  ELSE LET message_template == Head(ms)
           template_vars == get_template_vars(message_template.content)
           relevant_kwargs == RelevantKwargs(all_kwargs, template_vars)
           content == str_format(message_template.content, relevant_kwargs)
       IN IF content.kind = "raise" THEN content
          ELSE LET rest == FormatEach(Tail(ms), all_kwargs)
               IN IF rest.kind = "raise" THEN rest
                  ELSE Return(<<[message_template EXCEPT !.content = content.value]>>
                              \o rest.value)

ChatPromptTemplate_format_messages(h, self, llm, kwargs) ==
  LET all_kwargs == Merge(h[self].kwargs, kwargs)
  IN Step(h, FormatEach(h[self]._message_templates, all_kwargs))

ChatPromptTemplate_format(h, self, llm, kwargs) ==
  LET r == ChatPromptTemplate_format_messages(h, self, None, kwargs)
  IN IF r.out.kind = "raise" THEN r
     ELSE Step(r.heap, Return(messages_to_prompt(r.out.value)))

\* ------------------------------------------------ optional arguments
NoArg == [some |-> FALSE]
Some(v) == [some |-> TRUE, v |-> v]

\* -------------------------------------------- caller-supplied templates
\* A SelectorPromptTemplate owns templates through the BasePromptTemplate
\* interface only.  An "Ext" object is a template supplied by the caller that
\* implements that interface: it has a wording (name) and stored bindings,
\* renders to a value that shows both, and partial-binds into a fresh object.
Ext_format(h, self, llm, kwargs) ==
  Step(h, Return([op |-> "format", name |-> h[self].name,
                  kwargs |-> Merge(h[self].kwargs, kwargs)]))

Ext_format_messages(h, self, llm, kwargs) ==
  Step(h, Return([op |-> "format_messages", name |-> h[self].name,
                  kwargs |-> Merge(h[self].kwargs, kwargs)]))

Ext_partial_format(h, self, kwargs) ==
  Step(Append(h, [h[self] EXCEPT !.kwargs = Merge(@, kwargs)]), Return(Len(h) + 1))

\* ------------------------------------------------- SelectorPromptTemplate
\* A predicate is a callable on the consumer; it is modelled by its name.
Preds == {"is_gpt", "always"}
Condition(pred, llm) == IF pred = "is_gpt" THEN llm = "gpt" ELSE TRUE

SelectorPromptTemplate___init__(default_prompt, conditionals) ==
  SetAttrs("SelectorPromptTemplate", [cls |-> "SelectorPromptTemplate"],
           << <<"default_prompt", default_prompt>>,
              <<"conditionals", IF conditionals.some THEN conditionals.v ELSE <<>> >> >>)

RECURSIVE Scan(_, _, _, _)
\* for condition, prompt in self.conditionals: if condition(llm): return prompt
\* evals lists the positions whose predicate was called
Scan(self, conds, llm, i) ==
  IF i > Len(conds) THEN [found |-> FALSE, prompt |-> 0, evals |-> <<>>]
  ELSE IF Condition(conds[i][1], llm)
       THEN [found |-> TRUE, prompt |-> conds[i][2], evals |-> << <<self, i>> >>]
       ELSE LET r == Scan(self, conds, llm, i + 1)
            IN [r EXCEPT !.evals = << <<self, i>> >> \o @]

\* variant: the scan runs even when no consumer is given
SelectorPromptTemplate__select_scans_none(h, self, llm) ==
  LET r == Scan(self, h[self].conditionals, llm, 1)
  IN IF r.found THEN [prompt |-> r.prompt, evals |-> r.evals]
     ELSE [prompt |-> h[self].default_prompt, evals |-> r.evals]

SelectorPromptTemplate__select(h, self, llm) ==
  IF llm = None THEN [prompt |-> h[self].default_prompt, evals |-> <<>>]
  ELSE LET r == Scan(self, h[self].conditionals, llm, 1)
       IN IF r.found THEN [prompt |-> r.prompt, evals |-> r.evals]
          ELSE [prompt |-> h[self].default_prompt, evals |-> r.evals]

\* prompt.format(**kwargs): the selected template is called without llm, so
\* its llm parameter takes the default
\* variant: the consumer is forwarded to the selected template
DelegatedLlm_forwarded(llm) == llm

DelegatedLlm(llm) == None

RECURSIVE Call_format(_, _, _, _)
RECURSIVE Call_format_messages(_, _, _, _)
RECURSIVE Call_partial_format(_, _, _)

SelectorPromptTemplate_format(h, self, llm, kwargs) ==
  LET sel == SelectorPromptTemplate__select(h, self, llm)
      r == Call_format(h, sel.prompt, DelegatedLlm(llm), kwargs)
  IN [heap |-> r.heap, out |-> r.out, evals |-> sel.evals \o r.evals]

SelectorPromptTemplate_format_messages(h, self, llm, kwargs) ==
  LET sel == SelectorPromptTemplate__select(h, self, llm)
      r == Call_format_messages(h, sel.prompt, DelegatedLlm(llm), kwargs)
  IN [heap |-> r.heap, out |-> r.out, evals |-> sel.evals \o r.evals]

RECURSIVE PartialEach(_, _, _)
\* [(condition, prompt.partial_format(**kwargs)) for condition, prompt in ...]
PartialEach(h, conds, kwargs) ==
  IF conds = <<>> THEN Step(h, Return(<<>>))
  ELSE LET p == Call_partial_format(h, Head(conds)[2], kwargs)
       IN IF p.out.kind = "raise" THEN Step(p.heap, p.out)
          ELSE LET rest == PartialEach(p.heap, Tail(conds), kwargs)
               IN IF rest.out.kind = "raise" THEN rest
                  ELSE Step(rest.heap,
                            Return(<< <<Head(conds)[1], p.out.value>> >> \o rest.out.value))

\* variant: only the default is partially bound, the conditional templates
\* are reused as they are
SelectorPromptTemplate_partial_format_keeps_conditionals(h, self, kwargs) ==
  LET d == Call_partial_format(h, h[self].default_prompt, kwargs)
  IN IF d.out.kind = "raise" THEN Step(d.heap, d.out)
     ELSE Instantiate(d.heap, "SelectorPromptTemplate",
            SelectorPromptTemplate___init__(d.out.value, Some(d.heap[self].conditionals)))

SelectorPromptTemplate_partial_format(h, self, kwargs) ==
  LET d == Call_partial_format(h, h[self].default_prompt, kwargs)
  IN IF d.out.kind = "raise" THEN Step(d.heap, d.out)
     ELSE LET c == PartialEach(d.heap, d.heap[self].conditionals, kwargs)
          IN IF c.out.kind = "raise" THEN c
             ELSE Instantiate(c.heap, "SelectorPromptTemplate",
                    SelectorPromptTemplate___init__(d.out.value, Some(c.out.value)))

\* ------------------------------------------------------- method dispatch
NoEvals(step) == [heap |-> step.heap, out |-> step.out, evals |-> <<>>]

Call_format(h, id, llm, kwargs) ==
  CASE h[id].cls = "PromptTemplate" -> NoEvals(PromptTemplate_format(h, id, llm, kwargs))
    [] h[id].cls = "ChatPromptTemplate" ->
         NoEvals(ChatPromptTemplate_format(h, id, llm, kwargs))
    [] h[id].cls = "SelectorPromptTemplate" ->
         SelectorPromptTemplate_format(h, id, llm, kwargs)
    [] h[id].cls = "Ext" -> NoEvals(Ext_format(h, id, llm, kwargs))

Call_format_messages(h, id, llm, kwargs) ==
  CASE h[id].cls = "PromptTemplate" ->
         NoEvals(PromptTemplate_format_messages(h, id, llm, kwargs))
    [] h[id].cls = "ChatPromptTemplate" ->
         NoEvals(ChatPromptTemplate_format_messages(h, id, llm, kwargs))
    [] h[id].cls = "SelectorPromptTemplate" ->
         SelectorPromptTemplate_format_messages(h, id, llm, kwargs)
    [] h[id].cls = "Ext" -> NoEvals(Ext_format_messages(h, id, llm, kwargs))

Call_partial_format(h, id, kwargs) ==
  CASE h[id].cls = "PromptTemplate" -> PromptTemplate_partial_format(h, id, kwargs)
    [] h[id].cls = "ChatPromptTemplate" -> ChatPromptTemplate_partial_format(h, id, kwargs)
    [] h[id].cls = "SelectorPromptTemplate" ->
         SelectorPromptTemplate_partial_format(h, id, kwargs)
    [] h[id].cls = "Ext" -> Ext_partial_format(h, id, kwargs)

\* ------------------------------------------------- LangchainPromptTemplate
LangchainPromptTemplate___init__(template, selector, prompt_type) ==
  LET chosen ==
        IF ~selector.some
        THEN IF ~template.some THEN Raise("ValueError")
             ELSE Return([default_prompt |-> template.v, conditionals |-> <<>>])
        ELSE IF template.some THEN Raise("ValueError")
             ELSE Return(selector.v)
      a == IF chosen.kind = "raise" THEN chosen
           ELSE SetAttrs("LangchainPromptTemplate", [cls |-> "LangchainPromptTemplate"],
                         <<<<"_selector", chosen.value>>>>)
      b == IF a.kind = "raise" THEN a
           ELSE SetAttrs("LangchainPromptTemplate", a.value,
                         <<<<"metadata", [prompt_type |-> prompt_type]>>>>)
  IN IF b.kind = "raise" THEN b
     ELSE IF ~template.some THEN Raise("AttributeError")
     ELSE SetAttrs("LangchainPromptTemplate", b.value,
                   <<<<"output_parser", template.v.output_parser>>>>)

\* rebuilds the selector from the partially bound external templates and
\* constructs the result from the selector alone
LangchainPromptTemplate_partial_format(h, self, kwargs) ==
  LET sel == h[self]._selector
      lc_selector ==
        [default_prompt |-> [sel.default_prompt EXCEPT !.partial = Merge(@, kwargs)],
         conditionals |->
           [i \in 1..Len(sel.conditionals) |->
              <<sel.conditionals[i][1],
                [sel.conditionals[i][2] EXCEPT !.partial = Merge(@, kwargs)]>>]]
  IN Instantiate(h, "LangchainPromptTemplate",
                 LangchainPromptTemplate___init__(NoArg, Some(lc_selector), "custom"))

\* ------------------------------------------------------------- inputs
TemplateStrings ==
  { <<Var("a"), Lit("-"), Var("b")>>,
    <<Lit("x")>>,
    <<LBrace, Lit("x"), RBrace, Var("a")>> }

MessageLists ==
  { <<>>,
    <<ChatMessage("system", <<Lit("y"), Var("a")>>), ChatMessage("user", <<Var("b")>>)>>,
    <<ChatMessage("user", <<Var("a"), LBrace>>)>> }

Consumers == {None} \cup LLMs

Chains == UNION {[1..n -> Bindings] : n \in 0..MaxChain}

LcTemplates == {[name |-> "lc", partial |-> EmptyKw, output_parser |-> None]}
LcSelectors == {[default_prompt |-> t, conditionals |-> <<>>] : t \in LcTemplates}
OptOf(S) == {NoArg} \cup {Some(x) : x \in S}

Ids(h) == 1..Len(h)

\* the default a caller passes: the first caller-supplied template or the
\* template created last
Defaults(h) == {1, Len(h)}

\* the conditional lists a caller builds: predicates paired with the three
\* caller-supplied templates, or with the template created last
CondLists(h) ==
  {c \in { <<>>,
           << <<"is_gpt", 2>>, <<"always", 3>> >>,
           << <<"always", 2>>, <<"is_gpt", 3>> >>,
           << <<"is_gpt", Len(h)>> >>,
           << <<"is_gpt", 2>>, <<"is_gpt", 2>>, <<"always", 3>> >> } :
     Len(c) <= MaxConds}

\* what a call leaves behind for the caller to look at; objs holds the
\* instances the call created when the caller does not keep them
Call(op, self, llm, kwargs, args, r, objs) ==
  [op |-> op, self |-> self, llm |-> llm, kwargs |-> kwargs, args |-> args,
   out |-> r.out, evals |-> r.evals, objs |-> objs]

\* --------------------------------------------------------------- Init
\* three templates supplied by the caller, with different wording
Init ==
  /\ heap = << [cls |-> "Ext", name |-> "P", kwargs |-> [k \in {"a"} |-> "1"]],
               [cls |-> "Ext", name |-> "Q", kwargs |-> EmptyKw],
               [cls |-> "Ext", name |-> "R", kwargs |-> [k \in {"b"} |-> "2"]] >>
  /\ last = Call("init", 0, None, EmptyKw, <<>>, NoEvals(Step(heap, Return(None))), <<>>)

\* ------------------------------------------------------------- actions
\* PromptTemplate(template, prompt_type, output_parser, **kwargs), under
\* either name
NewPromptTemplate ==
  \E name \in ClassNames, template \in TemplateStrings, prompt_type \in PromptTypes,
     output_parser \in Parsers, kwargs \in Bindings :
    LET r == Instantiate(heap, Resolve(name),
               PromptTemplate___init__(template, prompt_type, output_parser, kwargs))
    IN /\ Len(r.heap) <= MaxHeap
       /\ heap' = r.heap
       /\ last' = Call("PromptTemplate", 0, None, kwargs,
                       [name |-> name, template |-> template,
                        prompt_type |-> prompt_type, output_parser |-> output_parser],
                       NoEvals(r),
                       IF r.out.kind = "return" THEN <<r.heap[r.out.value]>> ELSE <<>>)

NewChatPromptTemplate ==
  \E message_templates \in MessageLists, prompt_type \in PromptTypes,
     output_parser \in Parsers, kwargs \in Bindings :
    LET r == Instantiate(heap, "ChatPromptTemplate",
               ChatPromptTemplate___init__(message_templates, prompt_type,
                                           output_parser, kwargs))
    IN /\ Len(r.heap) <= MaxHeap
       /\ heap' = r.heap
       /\ last' = Call("ChatPromptTemplate", 0, None, kwargs,
                       [message_templates |-> message_templates,
                        prompt_type |-> prompt_type, output_parser |-> output_parser],
                       NoEvals(r),
                       IF r.out.kind = "return" THEN <<r.heap[r.out.value]>> ELSE <<>>)

NewLangchainPromptTemplate ==
  \E template \in OptOf(LcTemplates), selector \in OptOf(LcSelectors),
     prompt_type \in PromptTypes :
    LET r == Instantiate(heap, "LangchainPromptTemplate",
               LangchainPromptTemplate___init__(template, selector, prompt_type))
    IN /\ Len(r.heap) <= MaxHeap
       /\ heap' = r.heap
       /\ last' = Call("LangchainPromptTemplate", 0, None, EmptyKw,
                       [template |-> template, selector |-> selector,
                        prompt_type |-> prompt_type],
                       NoEvals(r),
                       IF r.out.kind = "return" THEN <<r.heap[r.out.value]>> ELSE <<>>)

NewSelectorPromptTemplate ==
  \E default_prompt \in Defaults(heap), conditionals \in OptOf(CondLists(heap)) :
    LET r == Instantiate(heap, "SelectorPromptTemplate",
               SelectorPromptTemplate___init__(default_prompt, conditionals))
    IN /\ Len(r.heap) <= MaxHeap
       /\ heap' = r.heap
       /\ last' = Call("SelectorPromptTemplate", 0, None, EmptyKw,
                       [default_prompt |-> default_prompt, conditionals |-> conditionals],
                       NoEvals(r), <<>>)

Selectors(h) == {i \in Ids(h) : h[i].cls = "SelectorPromptTemplate"}

SelectorFormat ==
  \E self \in Selectors(heap), llm \in Consumers, kwargs \in Bindings :
    LET r == SelectorPromptTemplate_format(heap, self, llm, kwargs)
    IN /\ heap' = r.heap
       /\ last' = Call("format", self, llm, kwargs, <<>>, r, <<>>)

SelectorFormatMessages ==
  \E self \in Selectors(heap), llm \in Consumers, kwargs \in Bindings :
    LET r == SelectorPromptTemplate_format_messages(heap, self, llm, kwargs)
    IN /\ heap' = r.heap
       /\ last' = Call("format_messages", self, llm, kwargs, <<>>, r, <<>>)

SelectorPartialFormat ==
  \E self \in Selectors(heap), kwargs \in Bindings :
    LET r == SelectorPromptTemplate_partial_format(heap, self, kwargs)
    IN /\ heap' = SubSeq(r.heap, 1, Len(heap))
       /\ last' = Call("partial_format", self, None, kwargs, <<>>, NoEvals(r),
                       SubSeq(r.heap, Len(heap) + 1, Len(r.heap)))

RECURSIVE Chain(_, _, _)
\* t.partial_format(**ps[1]).partial_format(**ps[2])... ; ids lists t and the
\* instance returned by each call
Chain(h, id, ps) ==
  IF ps = <<>> THEN [heap |-> h, out |-> Return(id), ids |-> <<id>>]
  ELSE LET p == Call_partial_format(h, id, Head(ps))
       IN IF p.out.kind = "raise" THEN [heap |-> p.heap, out |-> p.out, ids |-> <<id>>]
          ELSE LET r == Chain(p.heap, p.out.value, Tail(ps))
               IN [r EXCEPT !.ids = <<id>> \o @]

\* The caller's flow: construct a template, partial-bind it zero or more
\* times, render the last instance.  An exception ends the flow.
RunSession(c, ps, op, llm, kwargs) ==
  IF c.out.kind = "raise"
  THEN [heap |-> c.heap, out |-> c.out, evals |-> <<>>, ids |-> <<>>]
  ELSE LET ch == Chain(c.heap, c.out.value, ps)
       IN IF ch.out.kind = "raise"
          THEN [heap |-> ch.heap, out |-> ch.out, evals |-> <<>>, ids |-> ch.ids]
          ELSE LET r == IF op = "format"
                        THEN Call_format(ch.heap, ch.out.value, llm, kwargs)
                        ELSE Call_format_messages(ch.heap, ch.out.value, llm, kwargs)
               IN [heap |-> r.heap, out |-> r.out, evals |-> r.evals, ids |-> ch.ids]

Snapshots(r) == [i \in 1..Len(r.ids) |-> r.heap[r.ids[i]]]

RenderOps == {"format", "format_messages"}

StringSession ==
  \E template \in TemplateStrings, stored \in Bindings, ps \in Chains,
     op \in RenderOps, llm \in {None, "gpt"}, kwargs \in Bindings :
    LET c == Instantiate(heap, "PromptTemplate",
               PromptTemplate___init__(template, "custom", None, stored))
        r == RunSession(c, ps, op, llm, kwargs)
    IN /\ Len(r.heap) <= MaxHeap
       /\ heap' = r.heap
       /\ last' = Call("string_session", 0, llm, kwargs,
                       [template |-> template, stored |-> stored, ps |-> ps, op |-> op],
                       r, Snapshots(r))

ChatSession ==
  \E message_templates \in MessageLists, stored \in Bindings, ps \in Chains,
     op \in RenderOps, llm \in {None, "gpt"}, kwargs \in Bindings :
    LET c == Instantiate(heap, "ChatPromptTemplate",
               ChatPromptTemplate___init__(message_templates, "custom", None, stored))
        r == RunSession(c, ps, op, llm, kwargs)
    IN /\ Len(r.heap) <= MaxHeap
       /\ heap' = r.heap
       /\ last' = Call("chat_session", 0, llm, kwargs,
                       [message_templates |-> message_templates, stored |-> stored,
                        ps |-> ps, op |-> op],
                       r, Snapshots(r))

\* ------------------------------------------------------- specifications
NextTemplates ==
  \/ NewPromptTemplate
  \/ NewChatPromptTemplate
  \/ NewLangchainPromptTemplate
  \/ StringSession
  \/ ChatSession

NextSelector ==
  \/ NewSelectorPromptTemplate
  \/ SelectorFormat
  \/ SelectorFormatMessages
  \/ SelectorPartialFormat

Next == NextTemplates \/ NextSelector

Spec == Init /\ [][Next]_vars
SpecTemplates == Init /\ [][NextTemplates]_vars
SpecSelector == Init /\ [][NextSelector]_vars

\* ------------------------------------------------------------ properties
IsRender == last.op \in {"format", "format_messages"}

\* position of the first predicate of conds that is true on llm, 0 if none
FirstMatch(conds, llm) ==
  IF \E i \in 1..Len(conds) : Condition(conds[i][1], llm)
  THEN CHOOSE i \in 1..Len(conds) :
         /\ Condition(conds[i][1], llm)
         /\ \A j \in 1..(i - 1) : ~Condition(conds[j][1], llm)
  ELSE 0

\* the template the claim says a selector uses for a consumer
Expected(h, self, llm) ==
  IF llm = None \/ FirstMatch(h[self].conditionals, llm) = 0
  THEN h[self].default_prompt
  ELSE h[self].conditionals[FirstMatch(h[self].conditionals, llm)][2]

\* the predicates of self that the claim allows a call to evaluate, in order
ExpectedEvals(h, self, llm) ==
  LET k == IF llm = None THEN 0
           ELSE IF FirstMatch(h[self].conditionals, llm) = 0
                THEN Len(h[self].conditionals)
                ELSE FirstMatch(h[self].conditionals, llm)
  IN [j \in 1..k |-> <<self, j>>]

\* calling the same rendering operation on a template directly
Direct(h, t, op, kwargs) ==
  IF op = "format" THEN Call_format(h, t, None, kwargs).out
  ELSE Call_format_messages(h, t, None, kwargs).out

OwnEvals(self, evals) == SelectSeq(evals, LAMBDA e : e[1] = self)

\* C4: a render through a selector uses the default when there is no
\* consumer, else the template of the first predicate true on the consumer,
\* else the default; it evaluates the selector's predicates up to the first
\* match only, and its output is that of rendering the chosen template
\* directly.
C4_FirstMatchWins ==
  IsRender =>
    /\ last.out = Direct(heap, Expected(heap, last.self, last.llm), last.op, last.kwargs)
    /\ OwnEvals(last.self, last.evals) = ExpectedEvals(heap, last.self, last.llm)

\* both predicates are true on the consumer and the first one's template is
\* the one rendered
C4_Witness ==
  /\ last.op = "format"
  /\ last.llm = "gpt"
  /\ Len(heap[last.self].conditionals) = 2
  /\ \A i \in 1..2 : Condition(heap[last.self].conditionals[i][1], "gpt")
  /\ heap[heap[last.self].conditionals[1][2]].cls = "Ext"
  /\ heap[heap[last.self].conditionals[2][2]].cls = "Ext"
  /\ last.out.kind = "return"
  /\ last.out.value.name = heap[heap[last.self].conditionals[1][2]].name
  /\ last.out.value.name # heap[heap[last.self].conditionals[2][2]].name
  /\ last.evals = << <<last.self, 1>> >>

RECURSIVE DefaultLeaf(_, _)
\* the template reached by following default_prompt down to a non-selector
DefaultLeaf(h, t) ==
  IF h[t].cls = "SelectorPromptTemplate" THEN DefaultLeaf(h, h[t].default_prompt)
  ELSE t

\* C10: when the template a selector picks is itself a selector, the inner
\* selector sees no consumer: none of its predicates is evaluated and the
\* output is that of its own default template with the call-site bindings.
C10_InnerSelectorUsesDefault ==
  (IsRender /\ heap[Expected(heap, last.self, last.llm)].cls = "SelectorPromptTemplate") =>
    LET leaf == DefaultLeaf(heap, Expected(heap, last.self, last.llm))
    IN /\ last.out = Return([op |-> last.op, name |-> heap[leaf].name,
                             kwargs |-> Merge(heap[leaf].kwargs, last.kwargs)])
       /\ \A i \in 1..Len(last.evals) : last.evals[i][1] = last.self

\* the picked inner selector has a predicate true on the consumer whose
\* template differs from its default, and the default is what was rendered
C10_Witness ==
  /\ IsRender
  /\ last.llm = "gpt"
  /\ LET inner == Expected(heap, last.self, last.llm)
     IN /\ heap[inner].cls = "SelectorPromptTemplate"
        /\ FirstMatch(heap[inner].conditionals, "gpt") # 0
        /\ heap[Expected(heap, inner, "gpt")].cls = "Ext"
        /\ heap[heap[inner].default_prompt].cls = "Ext"
        /\ heap[Expected(heap, inner, "gpt")].name # heap[heap[inner].default_prompt].name
        /\ last.out.kind = "return"
        /\ last.out.value.name = heap[heap[inner].default_prompt].name

RECURSIVE IsPartialOf(_, _, _, _, _)
\* new is what partial-binding orig with kw must give: an instance created
\* by the call (beyond the first base objects), of the same kind; a
\* caller-supplied template with the same wording and the union of the
\* bindings, kw winning; a selector with the same predicates in the same
\* order over templates that are in turn partial-bound
IsPartialOf(h, base, new, orig, kw) ==
  /\ new > base
  /\ orig <= base
  /\ h[new].cls = h[orig].cls
  /\ IF h[orig].cls = "SelectorPromptTemplate"
     THEN /\ Len(h[new].conditionals) = Len(h[orig].conditionals)
          /\ \A i \in 1..Len(h[orig].conditionals) :
               /\ h[new].conditionals[i][1] = h[orig].conditionals[i][1]
               /\ IsPartialOf(h, base, h[new].conditionals[i][2],
                              h[orig].conditionals[i][2], kw)
          /\ IsPartialOf(h, base, h[new].default_prompt, h[orig].default_prompt, kw)
     ELSE /\ h[new].name = h[orig].name
          /\ DOMAIN h[new].kwargs = (DOMAIN h[orig].kwargs) \cup (DOMAIN kw)
          /\ \A k \in DOMAIN h[new].kwargs :
               h[new].kwargs[k] = IF k \in DOMAIN kw THEN kw[k] ELSE h[orig].kwargs[k]

\* what the caller holds after selector.partial_format: the objects that
\* existed before the call followed by the ones the call created
AfterPartial == heap \o last.objs

C5_Returned ==
  /\ last.out.kind = "return"
  /\ IsPartialOf(AfterPartial, Len(heap), last.out.value, last.self, last.kwargs)
  /\ \A llm \in Consumers :
       FirstMatch(AfterPartial[last.out.value].conditionals, llm)
         = FirstMatch(heap[last.self].conditionals, llm)

\* C5: selector.partial_format leaves every existing object as it was (the
\* selector, its conditional list, the bindings of the templates it owns),
\* so the original renders as before for every consumer, and returns a new
\* selector with the same predicates in the same order whose default and
\* conditional templates are the originals partially bound with the same
\* bindings; the new selector selects the same position as the original.
C5_SelectorPartialFormat ==
  [][ last'.op = "partial_format" =>
        /\ heap' = heap
        /\ \A llm \in Consumers, kw \in Bindings :
             SelectorPromptTemplate_format(heap', last'.self, llm, kw).out
               = SelectorPromptTemplate_format(heap, last'.self, llm, kw).out
        /\ C5_Returned' ]_vars

\* a selector with a conditional was partially bound with a key that its
\* default template already had under another value
C5_Witness ==
  /\ last.op = "partial_format"
  /\ last.out.kind = "return"
  /\ Len(heap[last.self].conditionals) >= 1
  /\ heap[heap[last.self].default_prompt].cls = "Ext"
  /\ "a" \in DOMAIN last.kwargs
  /\ "a" \in DOMAIN heap[heap[last.self].default_prompt].kwargs
  /\ heap[heap[last.self].default_prompt].kwargs["a"] # last.kwargs["a"]
  /\ AfterPartial[AfterPartial[last.out.value].default_prompt].kwargs["a"] = last.kwargs["a"]
  /\ Len(AfterPartial[last.out.value].conditionals) = Len(heap[last.self].conditionals)

\* ---------------------------------------- String and Chat Prompt Templates
RECURSIVE Union(_, _)
\* the union of a chain of bindings over base, the latest winning on each key
Union(base, ps) ==
  IF ps = <<>> THEN base
  ELSE LET rest == Union(base, SubSeq(ps, 1, Len(ps) - 1))
           new == ps[Len(ps)]
       IN [k \in (DOMAIN rest) \cup (DOMAIN new) |->
             IF k \in DOMAIN new THEN new[k] ELSE rest[k]]

Placeholders(s) == {s[i].s : i \in {j \in 1..Len(s) : s[j].t = "var"}}

\* the fully substituted string
Substituted(s, merged) ==
  [i \in 1..Len(s) |-> IF s[i].t = "var" THEN merged[s[i].s] ELSE s[i].s]

IsStringSession == last.op = "string_session"
IsChatSession == last.op = "chat_session"
IsSession == IsStringSession \/ IsChatSession

\* the bindings a render of the session's last instance works with
SessionMerged == Merge(Union(last.args.stored, last.args.ps), last.kwargs)

\* C8: PromptTemplate(template, prompt_type, output_parser, **kwargs), under
\* its own name and under the legacy alias, yields an instance whose stored
\* bindings, output parser and prompt type are the ones given.
C8_Constructible ==
  last.op = "PromptTemplate" =>
    /\ last.out.kind = "return"
    /\ Len(last.objs) = 1
    /\ last.objs[1].kwargs = last.kwargs
    /\ last.objs[1].output_parser = last.args.output_parser
    /\ last.objs[1].metadata.prompt_type = last.args.prompt_type

\* C7: LangchainPromptTemplate(template, selector) succeeds when exactly one
\* of the two is given and raises the configuration error when both or
\* neither are given.
C7_ExactlyOne ==
  last.op = "LangchainPromptTemplate" =>
    IF last.args.template.some # last.args.selector.some
    THEN last.out.kind = "return"
    ELSE last.out.kind = "raise" /\ last.out.exc = "ValueError"

\* C2: PromptTemplate.format raises the format error exactly when a
\* placeholder of the template has no key in the merged bindings, and
\* otherwise returns the fully substituted string.
C2_FormatAllOrNothing ==
  (IsStringSession /\ last.args.op = "format") =>
    IF Placeholders(last.args.template) \subseteq DOMAIN SessionMerged
    THEN last.out = Return(Substituted(last.args.template, SessionMerged))
    ELSE last.out = Raise("KeyError")

\* C3: ChatPromptTemplate.format_messages returns one message per message
\* template, in order, with the template's role and its content substituted
\* from the merged bindings, when every placeholder of every message has a
\* key; otherwise it raises the format error.
C3_FormatMessages ==
  (IsChatSession /\ last.args.op = "format_messages") =>
    LET ms == last.args.message_templates
    IN IF \A i \in 1..Len(ms) : Placeholders(ms[i].content) \subseteq DOMAIN SessionMerged
       THEN last.out = Return([i \in 1..Len(ms) |->
                                 ChatMessage(ms[i].role,
                                             Substituted(ms[i].content, SessionMerged))])
       ELSE last.out = Raise("KeyError")

\* C1: after partial_format calls the original instance still has the
\* bindings it was constructed with and the same template, and the instance
\* returned by the first call is a further object holding the new bindings.
C1_PartialFormatLeavesOriginal ==
  (IsSession /\ Len(last.args.ps) >= 1) =>
    /\ Len(last.objs) = Len(last.args.ps) + 1
    /\ last.objs[1].kwargs = last.args.stored
    /\ IsStringSession => last.objs[1]._template = last.args.template
    /\ IsChatSession => last.objs[1]._message_templates = last.args.message_templates
    /\ last.objs[2].kwargs = Union(last.args.stored, <<last.args.ps[1]>>)

\* C6: the stored bindings after a chain of two partial_format calls are the
\* union of all bindings with the latest call winning on each key; when both
\* calls bind the same keys the result is that of the second call alone.
C6_ChainedOverride ==
  (IsSession /\ Len(last.args.ps) = 2) =>
    /\ Len(last.objs) = 3
    /\ last.objs[3].kwargs = Union(last.args.stored, last.args.ps)
    /\ DOMAIN last.args.ps[1] = DOMAIN last.args.ps[2] =>
         last.objs[3].kwargs = Union(last.args.stored, <<last.args.ps[2]>>)

\* C9: a render either succeeds or raises the format error, and leaves the
\* rendered instance with the bindings and the template text it had; the
\* call-site bindings are not retained.
C9_RenderLeavesTemplate ==
  IsSession =>
    /\ last.out.kind = "return" \/ last.out.exc = "KeyError"
    /\ Len(last.objs) = Len(last.args.ps) + 1
    /\ last.objs[Len(last.objs)].kwargs = Union(last.args.stored, last.args.ps)
    /\ IsStringSession => last.objs[Len(last.objs)]._template = last.args.template
    /\ IsChatSession =>
         last.objs[Len(last.objs)]._message_templates = last.args.message_templates

====
